---- MODULE Spec2Model ----
(***************************************************************************)
(* A model of zipfix/merge.py: the in-memory three-way merge of git trees  *)
(* (rebase, merge_trees, merge_entries, merge_blobs, conflict_prompt).     *)
(*                                                                         *)
(* Objects are content-addressed, so an object's Oid is modelled by the    *)
(* object's content: a blob's Oid is its body, a tree's Oid is its         *)
(* name -> Entry mapping, a commit's Oid is its record.  The recursion of  *)
(* merge_trees / merge_entries is an explicit stack of merge_trees frames; *)
(* the places where the program blocks on the outside world (input(),      *)
(* subprocess.run) are separate steps whose answers are chosen by the      *)
(* environment.  `log` is a history variable: the externally visible       *)
(* events (prompts, tool runs, object reads and creations) in order.       *)
(***************************************************************************)
EXTENDS Integers, Sequences, FiniteSets, TLC

VARIABLES
    call,       \* the top-level call and its arguments
    stack,      \* the active merge_trees calls, innermost last
    pc,         \* where the program is
    cur,        \* the merge_entries call that waits for the outside world
    result,     \* what the top-level call returned
    error,      \* the exception the top-level call raised
    persisted,  \* the objects written to the repository
    log         \* history: the events so far, in order

vars == <<call, stack, pc, cur, result, error, persisted, log>>

---------------------------------------------------------------------------
(* Bounds of the model                                                     *)

\* Blob bodies are 0..MaxBody.  Body 0 stands for a byte string that is not
\* valid UTF-8 (such as b'\xff'); the other bodies are valid UTF-8 text.
MaxBody == 2

Bodies == 0 .. MaxBody

\* Names of tree entries at the top level and inside subdirectories.
Names == {"a", "b"}

SubNames == {"a"}

\* Bodies of the files that occur inside the sampled input trees.
TreeBodies == {1, 2}

---------------------------------------------------------------------------
(* The object model (odb): Mode, Entry, Tree, Blob, Commit                 *)

REGULAR == "REGULAR"

EXEC == "EXEC"

DIR == "DIR"

SYMLINK == "SYMLINK"

GITLINK == "GITLINK"

Modes == {REGULAR, EXEC, DIR, SYMLINK, GITLINK}

is_file(mode) == mode \in {REGULAR, EXEC}

\* Python's None for an Optional[Entry].
None == [mode |-> "None", oid |-> 0]

\* Python's None for an Optional[Blob].
NoBlob == -1

Entry(mode, oid) == [mode |-> mode, oid |-> oid]

\* `if base` in merge_entries: an Entry object is truthy, None is not.
Truthy(entry) == entry # None

\* Tree.empty()
EmptyTree == [n \in {} |-> None]

\* tree.entries.get(name)
Get(tree, name) == IF name \in DOMAIN tree THEN tree[name] ELSE None

\* Tree.create(entries): the tree whose Oid is determined by its entries.
TreeCreate(entries) == entries

\* Blob(body): the blob whose Oid is determined by its body.
BlobCreate(body) == body

\* Commit.create(tree_oid, parents, message, author)
CommitCreate(tree, parents, message, author) ==
    [tree |-> tree, parents |-> parents, message |-> message, author |-> author]

\* commit.parent(): the single parent of a commit.
Parent(commit) == commit.parents[1]

\* bytes.decode(): strict UTF-8 decoding raises UnicodeDecodeError on a byte
\* string that is not valid UTF-8.
Decodable(body) == body # 0

Decode(body) == <<"str", body>>

---------------------------------------------------------------------------
(* Exceptions                                                              *)

NoError == [cls |-> "None", msg |-> ""]

MergeConflict(msg) == [cls |-> "MergeConflict", msg |-> msg]

UnicodeDecodeError == [cls |-> "UnicodeDecodeError", msg |-> "invalid start byte"]

ValueError(msg) == [cls |-> "ValueError", msg |-> msg]

FileNotFoundError == [cls |-> "FileNotFoundError", msg |-> "merged"]

---------------------------------------------------------------------------
(* Inputs                                                                  *)

TreesOver(names, pool) == UNION {[D -> pool] : D \in SUBSET names}

FileEntries == {Entry(m, b) : m \in {REGULAR, EXEC}, b \in Bodies}

SymlinkEntries == {Entry(SYMLINK, b) : b \in Bodies}

GitlinkEntries == {Entry(GITLINK, c) : c \in 1 .. MaxBody}

TreeLeaves == {Entry(REGULAR, b) : b \in TreeBodies}

SubTrees == TreesOver(SubNames, TreeLeaves)

DirEntries == {Entry(DIR, t) : t \in SubTrees}

\* The optional entries merge_entries is called with directly.
EntryPool == {None} \cup FileEntries \cup SymlinkEntries \cup GitlinkEntries
                 \cup DirEntries

\* The trees merge_trees is called with directly.  As in the trees git
\* writes, a subtree of an input tree is never empty (EntryPool has the
\* empty subtree, for the direct calls of merge_entries).
TreePool == TreesOver(Names, TreeLeaves \cup (DirEntries \ {Entry(DIR, EmptyTree)}))

\* The trees of the commits rebase is called with.
CommitTrees == TreesOver(SubNames, TreeLeaves \cup DirEntries)

RootCommit(tree) == CommitCreate(tree, <<>>, "root", "alice")

DefaultLabels == <<"current", "base", "other">>

RebaseLabels == <<"new parent", "old parent", "incoming">>

---------------------------------------------------------------------------
(* What the environment may answer                                         *)

\* input() at "Resolution or (A)bort? "
Choices == {"1", "2", "A"}

\* input() at "Have conflicts resolved successfully? (y/N) "
Answers == {"y", "Y", "n", ""}

\* process.returncode of git merge-file
ReturnCodes == {-1, 0, 1}

\* str.lower() on the answers above
Lower(s) == IF s = "Y" THEN "y" ELSE s

---------------------------------------------------------------------------
(* merge_entries, as far as it runs without the outside world: what it     *)
(* reads from the object model and what it does next.                      *)

Read(what, side) == <<what, side>>

ReturnsValue(value) == [kind |-> "return", value |-> value, reads |-> <<>>]

Raises(exc, reads) == [kind |-> "raise", error |-> exc, reads |-> reads]

\* a call of conflict_prompt(path, descr, labels, current, current_descr,
\*                           other, other_descr)
Prompts(descr, current, current_descr, other, other_descr, reads) ==
    [kind |-> "prompt", descr |-> descr,
     current |-> current, current_descr |-> current_descr,
     other |-> other, other_descr |-> other_descr, reads |-> reads]

\* a call of merge_blobs(path, labels, current, base, other)
MergesBlobs(mode, current, base, other, reads) ==
    [kind |-> "blobs", mode |-> mode, current |-> current, base |-> base,
     other |-> other, reads |-> reads]

\* a call of merge_trees(path, labels, current, base, other)
MergesTrees(mode, current, base, other, reads) ==
    [kind |-> "trees", mode |-> mode, current |-> current, base |-> base,
     other |-> other, reads |-> reads]

TypeConflict == "type conflict"

\* Mutant of ResolveMode: the side that kept the base's mode wins.
ResolveModeKeepsBase(current, base, other) ==
    IF current.mode = other.mode
    THEN current.mode
    ELSE IF is_file(current.mode) /\ is_file(other.mode)
    THEN IF Truthy(base) /\ base.mode = current.mode
         THEN current.mode
         ELSE IF Truthy(base) /\ base.mode = other.mode
         THEN other.mode
         ELSE EXEC
    ELSE TypeConflict

\* "Determine which mode we're working with here": the mode, or
\* TypeConflict where the code returns conflict_prompt("Entry type", ...).
ResolveMode(current, base, other) ==
    IF current.mode = other.mode
    THEN current.mode
    ELSE IF is_file(current.mode) /\ is_file(other.mode)
    THEN IF Truthy(base) /\ base.mode = current.mode
         THEN other.mode
         ELSE IF Truthy(base) /\ base.mode = other.mode
         THEN current.mode
         ELSE EXEC
    ELSE TypeConflict

\* The three "no change" rules at the head of merge_entries; NoFastPath when
\* none applies.
NoFastPath == [mode |-> "no fast path", oid |-> 0]

\* Mutant of FastPath: an unchanged current side keeps current's entry.
FastPathKeepsCurrent(current, base, other) ==
    IF base = current THEN current
    ELSE IF base = other THEN current
    ELSE IF current = other THEN current
    ELSE NoFastPath

FastPath(current, base, other) ==
    IF base = current THEN other
    ELSE IF base = other THEN current
    ELSE IF current = other THEN current
    ELSE NoFastPath

\* "Time to merge the actual entries!"
MergeContents(mode, current, base, other) ==
    IF is_file(mode)
    THEN IF Truthy(base) /\ is_file(base.mode)
         THEN MergesBlobs(mode, current.oid, base.oid, other.oid,
                  <<Read("blob", "base"), Read("blob", "current"),
                    Read("blob", "other")>>)
         ELSE MergesBlobs(mode, current.oid, NoBlob, other.oid,
                  <<Read("blob", "current"), Read("blob", "other")>>)
    ELSE IF mode = DIR
    THEN IF Truthy(base) /\ base.mode = DIR
         THEN MergesTrees(mode, current.oid, base.oid, other.oid,
                  <<Read("tree", "base"), Read("tree", "current"),
                    Read("tree", "other")>>)
         ELSE MergesTrees(mode, current.oid, EmptyTree, other.oid,
                  <<Read("tree", "current"), Read("tree", "other")>>)
    ELSE IF mode = SYMLINK
    THEN IF ~Decodable(current.oid)
         THEN Raises(UnicodeDecodeError, <<Read("symlink", "current")>>)
         ELSE IF ~Decodable(other.oid)
         THEN Raises(UnicodeDecodeError,
                  <<Read("symlink", "current"), Read("symlink", "other")>>)
         ELSE Prompts("Symlink", current, Decode(current.oid),
                  other, Decode(other.oid),
                  <<Read("symlink", "current"), Read("symlink", "other")>>)
    ELSE IF mode = GITLINK
    THEN Prompts("Submodule", current, current.oid, other, other.oid, <<>>)
    ELSE Raises(ValueError("unknown mode"), <<>>)

merge_entries(current, base, other) ==
    IF FastPath(current, base, other) # NoFastPath
    THEN ReturnsValue(FastPath(current, base, other))
    ELSE IF current = None
    THEN Prompts("Deletion", current, "deleted", other, "modified", <<>>)
    ELSE IF other = None
    THEN Prompts("Deletion", current, "modified", other, "deleted", <<>>)
    ELSE IF ResolveMode(current, base, other) = TypeConflict
    THEN Prompts("Entry type", current, current.mode, other, other.mode, <<>>)
    ELSE MergeContents(ResolveMode(current, base, other), current, base, other)

---------------------------------------------------------------------------
(* State                                                                   *)

NoResult == [kind |-> "none", value |-> 0]

NoDecision == [kind |-> "none", reads |-> <<>>]

NoCur == [path |-> <<>>, d |-> NoDecision, merged |-> NoBlob]

Event(ev, path, info) == [ev |-> ev, path |-> path, info |-> info]

ReadEvents(path, reads) == [i \in 1 .. Len(reads) |-> Event("read", path, reads[i])]

\* Mutant of Frame: the names of `other` are left out of the union.
FrameWithoutOther(ret, path, current, base, other) ==
    [ret |-> ret, path |-> path, current |-> current, base |-> base,
     other |-> other,
     names |-> (DOMAIN current) \cup (DOMAIN base),
     entries |-> EmptyTree, name |-> ""]

\* The local state of one merge_trees call: `ret` says who called it, `names`
\* are the names the for loop has not visited yet, `name` is the loop variable.
Frame(ret, path, current, base, other) ==
    [ret |-> ret, path |-> path, current |-> current, base |-> base,
     other |-> other,
     names |-> (DOMAIN current) \cup (DOMAIN base) \cup (DOMAIN other),
     entries |-> EmptyTree, name |-> ""]

Top == stack[Len(stack)]

Callers == SubSeq(stack, 1, Len(stack) - 1)

\* Mutant of Collect: the dictionary is started anew at every name.
CollectOnlyLast(entries, name, merged) ==
    IF merged # None
    THEN [n \in {name} |-> merged]
    ELSE EmptyTree

\* Mutant of Collect: the test for None is missing.
CollectAlways(entries, name, merged) ==
    [n \in (DOMAIN entries) \cup {name} |->
        IF n = name THEN merged ELSE entries[n]]

\* if merged is not None: entries[name] = merged
Collect(entries, name, merged) ==
    IF merged # None
    THEN [n \in (DOMAIN entries) \cup {name} |->
             IF n = name THEN merged ELSE entries[n]]
    ELSE entries

CallsOfEntries ==
    {[op |-> "merge_entries", labels |-> DefaultLabels,
      current |-> c, base |-> b, other |-> o] : c \in EntryPool, b \in EntryPool, o \in EntryPool}

CallsOfTrees ==
    {[op |-> "merge_trees", labels |-> DefaultLabels,
      current |-> c, base |-> b, other |-> o] : c \in TreePool, b \in TreePool, o \in TreePool}

\* rebase(commit, parent): the commit sits on a root commit; the new parent
\* is a root commit (the commit's own parent among them) or a child of the
\* commit's parent.
CallsOfRebase ==
    {[op |-> "rebase", labels |-> RebaseLabels,
      commit |-> CommitCreate(t3, <<RootCommit(t2)>>, "incoming", "bob"),
      parent |-> p] :
        <<t2, t3, p>> \in
            UNION {{<<x2, x3, RootCommit(x1)>>,
                    <<x2, x3, CommitCreate(x1, <<RootCommit(x2)>>, "upstream", "carol")>>} :
                   x1 \in CommitTrees, x2 \in CommitTrees, x3 \in CommitTrees}}

Init ==
    /\ call \in CallsOfEntries \cup CallsOfTrees \cup CallsOfRebase
    /\ stack = <<>>
    /\ pc = "call"
    /\ cur = NoCur
    /\ result = NoResult
    /\ error = NoError
    /\ persisted = {}
    /\ log = <<>>

---------------------------------------------------------------------------
(* Control transfers                                                       *)

\* The top-level call returns `value`.
Finish(kind, value, lg) ==
    /\ pc' = "done"
    /\ result' = [kind |-> kind, value |-> value]
    /\ stack' = <<>>
    /\ cur' = NoCur
    /\ log' = lg
    /\ UNCHANGED <<call, error, persisted>>

\* Mutant of Raise: the outermost merge_trees call catches the exception and
\* returns the tree of the entries merged so far.
RaiseReturnsPartial(exc, lg) ==
    IF stack = <<>>
    THEN /\ pc' = "failed"
         /\ error' = exc
         /\ stack' = <<>>
         /\ cur' = NoCur
         /\ log' = lg
         /\ UNCHANGED <<call, result, persisted>>
    ELSE /\ pc' = "done"
         /\ result' = [kind |-> "tree", value |-> TreeCreate(stack[1].entries)]
         /\ stack' = <<>>
         /\ cur' = NoCur
         /\ log' = lg
         /\ UNCHANGED <<call, error, persisted>>

\* An exception is raised.  Neither merge_entries, merge_trees nor rebase
\* catches anything, so every active call is left and the top-level call
\* fails with the exception.
Raise(exc, lg) ==
    /\ pc' = "failed"
    /\ error' = exc
    /\ stack' = <<>>
    /\ cur' = NoCur
    /\ log' = lg
    /\ UNCHANGED <<call, result, persisted>>

\* merge_entries returns `merged`: to the for loop of the innermost
\* merge_trees call of stk, or as the result of the top-level call.
ReturnEntry(stk, merged, lg) ==
    IF stk = <<>>
    THEN Finish("entry", merged, Append(lg, Event("return", <<>>, merged)))
    ELSE /\ stack' = [stk EXCEPT ![Len(stk)].entries =
                          Collect(@, stk[Len(stk)].name, merged)]
         /\ pc' = "loop"
         /\ cur' = NoCur
         /\ log' = Append(lg, Event("return",
                              Append(stk[Len(stk)].path, stk[Len(stk)].name),
                              merged))
         /\ UNCHANGED <<call, result, error, persisted>>

\* merge_entries(path, labels, current, base, other) is called with the
\* merge_trees calls stk active, and runs until it returns, raises or needs
\* the outside world.
CallMergeEntries(stk, path, current, base, other) ==
    LET d == merge_entries(current, base, other)
        lg == log \o ReadEvents(path, d.reads)
    IN  CASE d.kind = "return" -> ReturnEntry(stk, d.value, lg)
          [] d.kind = "raise" -> Raise(d.error, lg)
          [] d.kind = "trees" ->
                /\ stack' = Append(stk, Frame("merge_entries", path, d.current, d.base, d.other))
                /\ pc' = "loop"
                /\ cur' = NoCur
                /\ log' = Append(lg, Event("merge_trees", path, <<d.current, d.base, d.other>>))
                /\ UNCHANGED <<call, result, error, persisted>>
          [] d.kind = "prompt" ->
                /\ stack' = stk
                /\ pc' = "prompt"
                /\ cur' = [path |-> path, d |-> d, merged |-> NoBlob]
                /\ log' = lg
                /\ UNCHANGED <<call, result, error, persisted>>
          [] d.kind = "blobs" ->
                /\ stack' = stk
                /\ pc' = "merge_file"
                /\ cur' = [path |-> path, d |-> d, merged |-> NoBlob]
                /\ log' = Append(lg, Event("merge_blobs", path, <<d.current, d.base, d.other>>))
                /\ UNCHANGED <<call, result, error, persisted>>

---------------------------------------------------------------------------
(* conflict_prompt and merge_blobs, given what the outside world answers   *)

\* conflict_prompt(...) when input() returns ch
conflict_prompt(ch, current, other) ==
    IF ch = "1" THEN ReturnsValue(current)
    ELSE IF ch = "2" THEN ReturnsValue(other)
    ELSE Raises(MergeConflict("aborted"), <<>>)

\* What conflict_prompt prints: the conflict, the two options with the
\* labels it shows for them, and the answer it got.
PromptInfo(d, labels, ch) ==
    [descr |-> d.descr, label1 |-> labels[1], descr1 |-> d.current_descr,
     label2 |-> labels[2], descr2 |-> d.other_descr, ch |-> ch]

\* Mutant of AfterMergeFile: the test for a negative returncode is missing.
AfterMergeFileNonZero(returncode, stdout) ==
    IF returncode = 0 THEN ReturnsValue(BlobCreate(stdout))
    ELSE [kind |-> "kdiff3", reads |-> <<>>]

\* merge_blobs after git merge-file ended with returncode and stdout:
\* "return" the blob, "raise", or go on to kdiff3.
AfterMergeFile(returncode, stdout) ==
    IF returncode = 0 THEN ReturnsValue(BlobCreate(stdout))
    ELSE IF returncode < 0 THEN Raises(MergeConflict("git merge-file errored"), <<>>)
    ELSE [kind |-> "kdiff3", reads |-> <<>>]

\* Mutant of AfterConfirm: only an explicit 'n' abandons the merge.
AfterConfirmUnlessNo(answer, merged) ==
    IF Lower(answer) = "n" THEN Raises(MergeConflict("merging failed"), <<>>)
    ELSE IF merged = NoBlob THEN Raises(FileNotFoundError, <<>>)
    ELSE ReturnsValue(BlobCreate(merged))

\* merge_blobs after kdiff3 ran and input() returned answer; merged is the
\* content of tmpdir/merged, NoBlob when kdiff3 wrote no such file.
AfterConfirm(answer, merged) ==
    IF Lower(answer) # "y" THEN Raises(MergeConflict("merging failed"), <<>>)
    ELSE IF merged = NoBlob THEN Raises(FileNotFoundError, <<>>)
    ELSE ReturnsValue(BlobCreate(merged))

---------------------------------------------------------------------------
(* Actions                                                                 *)

\* Mutant of RebaseArgs: the new parent and the commit change places.
RebaseArgsSwapped(commit, parent) ==
    <<commit.tree, Parent(commit).tree, parent.tree>>

\* The trees rebase hands to merge_trees as <<current, base, other>>.
RebaseArgs(commit, parent) ==
    <<parent.tree, Parent(commit).tree, commit.tree>>

\* rebase(commit, parent), up to the for loop of merge_trees
rebase ==
    /\ pc = "call"
    /\ call.op = "rebase"
    /\ IF Parent(call.commit) = call.parent
       THEN Finish("commit", call.commit, log)
       ELSE /\ stack' = <<Frame("rebase", <<>>,
                                RebaseArgs(call.commit, call.parent)[1],
                                RebaseArgs(call.commit, call.parent)[2],
                                RebaseArgs(call.commit, call.parent)[3])>>
            /\ pc' = "loop"
            /\ log' = log \o <<Event("read", <<>>, Read("tree", "parent")),
                               Event("read", <<>>, Read("tree", "commit.parent")),
                               Event("read", <<>>, Read("tree", "commit")),
                               Event("merge_trees", <<>>,
                                     RebaseArgs(call.commit, call.parent))>>
            /\ UNCHANGED <<call, cur, result, error, persisted>>

\* merge_trees(path, labels, current, base, other) called directly, up to
\* its for loop
merge_trees ==
    /\ pc = "call"
    /\ call.op = "merge_trees"
    /\ stack' = <<Frame("merge_trees", <<>>, call.current, call.base, call.other)>>
    /\ pc' = "loop"
    /\ log' = Append(log, Event("merge_trees", <<>>,
                                 <<call.current, call.base, call.other>>))
    /\ UNCHANGED <<call, cur, result, error, persisted>>

\* merge_entries(path, labels, current, base, other) called directly
merge_entries_direct ==
    /\ pc = "call"
    /\ call.op = "merge_entries"
    /\ CallMergeEntries(<<>>, <<>>, call.current, call.base, call.other)

\* One iteration of the for loop of merge_trees: the set `names` is
\* enumerated in no particular order.
merge_trees_loop ==
    /\ pc = "loop"
    /\ \E name \in Top.names :
          CallMergeEntries(
              [stack EXCEPT ![Len(stack)].names = @ \ {name},
                            ![Len(stack)].name = name],
              Append(Top.path, name),
              Get(Top.current, name), Get(Top.base, name), Get(Top.other, name))

\* The for loop of merge_trees is over: return Tree.create(entries) to the
\* caller, which wraps it into an Entry (merge_entries), returns it
\* (a direct call) or creates the rebased commit (rebase).
merge_trees_return ==
    /\ pc = "loop"
    /\ Top.names = {}
    /\ LET tree == TreeCreate(Top.entries)
           commit == CommitCreate(tree, <<call.parent>>,
                                  call.commit.message, call.commit.author)
           lg == Append(log, Event("create", Top.path, <<"tree", tree>>))
       IN  CASE Top.ret = "merge_entries" ->
                    ReturnEntry(Callers, Entry(DIR, tree), lg)
             [] Top.ret = "merge_trees" ->
                    Finish("tree", tree, lg)
             [] Top.ret = "rebase" ->
                    Finish("commit", commit,
                           Append(lg, Event("create", Top.path, <<"commit", commit>>)))

\* input() of conflict_prompt returns
conflict_prompt_input ==
    /\ pc = "prompt"
    /\ \E ch \in Choices :
          LET r == conflict_prompt(ch, cur.d.current, cur.d.other)
              lg == Append(log, Event("conflict_prompt", cur.path,
                                      PromptInfo(cur.d, call.labels, ch)))
          IN  IF r.kind = "return"
              THEN ReturnEntry(stack, r.value, lg)
              ELSE Raise(r.error, lg)

\* git merge-file runs and ends
merge_blobs_merge_file ==
    /\ pc = "merge_file"
    /\ \E returncode \in ReturnCodes, stdout \in Bodies :
          /\ returncode # 0 => stdout = 0
          /\ LET r == AfterMergeFile(returncode, stdout)
                 lg == Append(log, Event("merge-file", cur.path,
                             [returncode |-> returncode, stdout |-> stdout]))
             IN  CASE r.kind = "return" ->
                        ReturnEntry(stack, Entry(cur.d.mode, r.value),
                                    Append(lg, Event("create", cur.path, <<"blob", r.value>>)))
                   [] r.kind = "raise" -> Raise(r.error, lg)
                   [] r.kind = "kdiff3" ->
                        /\ pc' = "kdiff3"
                        /\ log' = lg
                        /\ UNCHANGED <<call, stack, cur, result, error, persisted>>

\* kdiff3 runs and ends, having written tmpdir/merged or not
merge_blobs_kdiff3 ==
    /\ pc = "kdiff3"
    /\ \E merged \in Bodies \cup {NoBlob} :
          /\ cur' = [cur EXCEPT !.merged = merged]
          /\ pc' = "confirm"
          /\ log' = Append(log, Event("kdiff3", cur.path, merged))
          /\ UNCHANGED <<call, stack, result, error, persisted>>

\* input() of the confirmation returns; on 'y' tmpdir/merged is read back
merge_blobs_confirm ==
    /\ pc = "confirm"
    /\ \E answer \in Answers :
          LET r == AfterConfirm(answer, cur.merged)
              lg == Append(log, Event("confirm", cur.path, answer))
          IN  IF r.kind = "return"
              THEN ReturnEntry(stack, Entry(cur.d.mode, r.value),
                               lg \o <<Event("readback", cur.path, cur.merged),
                                       Event("create", cur.path, <<"blob", r.value>>)>>)
              ELSE Raise(r.error, lg)

Next ==
    \/ rebase
    \/ merge_trees
    \/ merge_entries_direct
    \/ merge_trees_loop
    \/ merge_trees_return
    \/ conflict_prompt_input
    \/ merge_blobs_merge_file
    \/ merge_blobs_kdiff3
    \/ merge_blobs_confirm

Spec == Init /\ [][Next]_vars

---------------------------------------------------------------------------
(* Properties                                                              *)

Indices == 1 .. Len(log)

\* The indices of the events of kind ev at path.
At(ev, path) == {i \in Indices : log[i].ev = ev /\ log[i].path = path}

\* The names of the three trees a merge_trees call was given.
UnionOfNames(trees) == (DOMAIN trees[1]) \cup (DOMAIN trees[2]) \cup (DOMAIN trees[3])

\* A directly called merge_entries is past its first step.
EntriesCalled == call.op = "merge_entries" /\ pc # "call"

\* C1: whatever the three optional entries are, merge_entries returns other
\* when base = current, else current when base = other, else current when
\* current = other, and in these cases it prompts nobody, merges no content
\* and reads no blob or subtree: its return is the only event.  The same
\* holds for every name a merge_trees loop has visited.
C1_FastPaths ==
    /\ (EntriesCalled /\ (call.base = call.current \/ call.base = call.other
                            \/ call.current = call.other))
          => /\ pc = "done"
             /\ result.kind = "entry"
             /\ result.value = IF call.base = call.current THEN call.other
                               ELSE call.current
             /\ Len(log) = 1
             /\ log[1].ev = "return"
    /\ \A k \in 1 .. Len(stack) :
          LET f == stack[k]
              visited == UnionOfNames(<<f.current, f.base, f.other>>) \ f.names
          IN  \A n \in visited :
                 LET c == Get(f.current, n)
                     b == Get(f.base, n)
                     o == Get(f.other, n)
                     here == {i \in Indices : log[i].path = Append(f.path, n)}
                 IN  (b = c \/ b = o \/ c = o)
                        => /\ Get(f.entries, n) = IF b = c THEN o ELSE c
                           /\ Cardinality(here) = 1
                           /\ \A i \in here : log[i].ev = "return"

\* C1 witness: base = other, so the result is current, here a directory that
\* differs from the base and is returned without being read.
C1_Witness ==
    /\ EntriesCalled
    /\ pc = "done"
    /\ call.base = call.other
    /\ call.base # call.current
    /\ call.current.mode = DIR
    /\ call.base.mode = DIR
    /\ result.value = call.current

\* C2: merge_trees(current = B, base = B, other = O) returns a tree equal to
\* O (so merge_trees(T, T, T) = T).  During the call nobody is prompted, no
\* content is merged, nothing is read and no merge_trees call below the top
\* level is made: the only events are the call, one return per name and the
\* creation of the result.
C2_UnchangedCurrent ==
    (call.op = "merge_trees" /\ call.current = call.base)
       => /\ Len(stack) <= 1
          /\ pc \in {"call", "loop", "done"}
          /\ \A i \in Indices :
                /\ log[i].ev \in {"merge_trees", "return", "create"}
                /\ Len(log[i].path) = IF log[i].ev = "return" THEN 1 ELSE 0
          /\ pc = "done" => /\ result.kind = "tree"
                            /\ result.value = call.other

\* C2 witness: B and O hold different subdirectories under the same name;
\* the merge is done and returned O.
C2_Witness ==
    /\ call.op = "merge_trees"
    /\ call.current = call.base
    /\ pc = "done"
    /\ result.value = call.other
    /\ \E n \in Names :
          /\ Get(call.base, n).mode = DIR
          /\ Get(call.other, n).mode = DIR
          /\ Get(call.base, n) # Get(call.other, n)

\* The "merge_trees" event that a "create tree" event at index i answers.
CallOf(i) ==
    CHOOSE j \in At("merge_trees", log[i].path) :
        j < i /\ \A k \in At("merge_trees", log[i].path) : k < i => k <= j

\* The trees created by merge_trees calls that returned.
TreesCreated == {i \in Indices : log[i].ev = "create" /\ log[i].info[1] = "tree"}

\* C3: every tree merge_trees returns has its names among the names of the
\* three input trees, and a name of that union is in the tree exactly when
\* merge_entries returned an entry (not None) for it, which is then the
\* entry under that name.
C3_UnionOfNames ==
    \A i \in TreesCreated :
        LET tree == log[i].info[2]
            names == UnionOfNames(log[CallOf(i)].info)
        IN  /\ DOMAIN tree \subseteq names
            /\ \A n \in names :
                  LET rets == {k \in At("return", Append(log[i].path, n)) :
                                  CallOf(i) < k /\ k < i}
                  IN  /\ Cardinality(rets) = 1
                      /\ \A k \in rets :
                            /\ n \in DOMAIN tree <=> log[k].info # None
                            /\ n \in DOMAIN tree => tree[n] = log[k].info

\* C3 witness: a finished merge_trees whose result lacks a name of the union
\* because the resolver chose the deletion, and holds another name.
C3_Witness ==
    /\ call.op = "merge_trees"
    /\ pc = "done"
    /\ \E n \in UnionOfNames(<<call.current, call.base, call.other>>) :
          /\ n \notin DOMAIN result.value
          /\ At("conflict_prompt", <<n>>) # {}
    /\ DOMAIN result.value # {}

\* merge_entries was called directly with two present entries whose modes
\* are different file modes, and no "no change" rule applies.
ModeConflict ==
    /\ EntriesCalled
    /\ Truthy(call.current)
    /\ Truthy(call.other)
    /\ call.current.mode # call.other.mode
    /\ is_file(call.current.mode)
    /\ is_file(call.other.mode)
    /\ call.base # call.current
    /\ call.base # call.other

\* The blob the content merge at path produced: the output of git
\* merge-file when it exited 0, else the file kdiff3 wrote.
MergedBlob(path) ==
    LET mf == log[CHOOSE i \in At("merge-file", path) : TRUE].info
    IN  IF mf.returncode = 0 THEN mf.stdout
        ELSE log[CHOOSE i \in At("kdiff3", path) : TRUE].info

\* C4: in a true conflict of two present entries with different file modes
\* the resolver is never asked, and the entry returned has the mode
\* other.mode if base.mode = current.mode, else current.mode if base.mode =
\* other.mode, else EXEC (base absent or not a file), with the Oid of the
\* blob the content merge produced.
C4_ModeOfMergedFile ==
    ModeConflict
       => /\ At("conflict_prompt", <<>>) = {}
          /\ pc \in {"merge_file", "kdiff3", "confirm", "done", "failed"}
          /\ pc = "done"
                => /\ result.kind = "entry"
                   /\ result.value.mode =
                         IF call.base.mode = call.current.mode THEN call.other.mode
                         ELSE IF call.base.mode = call.other.mode THEN call.current.mode
                         ELSE EXEC
                   /\ result.value.oid = MergedBlob(<<>>)

\* C4 witness: only `other` changed the mode (to REGULAR), and the merged
\* entry is REGULAR.
C4_Witness ==
    /\ ModeConflict
    /\ pc = "done"
    /\ call.base.mode = EXEC
    /\ call.current.mode = EXEC
    /\ call.other.mode = REGULAR
    /\ result.value.mode = REGULAR

\* merge_entries was called directly with a structural conflict: no "no
\* change" rule applies and one side is absent, or the modes are of
\* different kinds, or both sides are symlinks or both are gitlinks.
StructuralConflict ==
    /\ EntriesCalled
    /\ call.base # call.current
    /\ call.base # call.other
    /\ call.current # call.other
    /\ \/ call.current = None
       \/ call.other = None
       \/ call.current.mode # call.other.mode
             /\ ~(is_file(call.current.mode) /\ is_file(call.other.mode))
       \/ call.current.mode = call.other.mode
             /\ call.current.mode \in {SYMLINK, GITLINK}

\* The statement of C5 for one answered prompt.
ResolverDecided(e) ==
    /\ (call.current = None \/ call.other = None)
          => /\ e.descr = "Deletion"
             /\ e.descr1 = (IF call.current = None THEN "deleted" ELSE "modified")
             /\ e.descr2 = (IF call.other = None THEN "deleted" ELSE "modified")
    /\ pc = "done"
          => /\ e.ch \in {"1", "2"}
             /\ result.value = IF e.ch = "1" THEN call.current ELSE call.other
    /\ pc = "failed"
          => /\ e.ch \notin {"1", "2"}
             /\ error = MergeConflict("aborted")

\* C5 (fails on the code): every structural conflict is put to the resolver
\* exactly once, the result is the candidate it chose (for a deletion
\* conflict: the surviving entry for "modified", None for "deleted"), and
\* the merge fails only when the resolver abandons.
C5_StructuralConflictsPrompted ==
    StructuralConflict
       => /\ pc \in {"prompt", "done", "failed"}
          /\ pc = "prompt" => At("conflict_prompt", <<>>) = {}
          /\ pc \in {"done", "failed"}
                => /\ Cardinality(At("conflict_prompt", <<>>)) = 1
                   /\ \A i \in At("conflict_prompt", <<>>) : ResolverDecided(log[i].info)

\* What does hold: the statement of C5 for every structural conflict except
\* two symlinks one of whose targets is not valid UTF-8.
C5_HoldsForDecodableTargets ==
    (StructuralConflict
        /\ ~(/\ call.current.mode = SYMLINK
             /\ call.other.mode = SYMLINK
             /\ (~Decodable(call.current.oid) \/ ~Decodable(call.other.oid))))
       => C5_StructuralConflictsPrompted

\* Events of the content merges.
NegativeAnswer(i) == log[i].ev = "confirm" /\ log[i].info \notin {"y", "Y"}

ToolError(i) == log[i].ev = "merge-file" /\ log[i].info.returncode < 0

Abandoned(i) == log[i].ev = "conflict_prompt" /\ log[i].info.ch \notin {"1", "2"}

\* C6 as stated (fails on the code): after a negative exit status of git
\* merge-file the merge has failed with an error of another class than the
\* error raised when the resolver or the confirmation abandons.
C6_ToolErrorOfItsOwnClass ==
    \A i \in Indices :
        ToolError(i) => /\ pc = "failed"
                        /\ error.cls # MergeConflict("aborted").cls
                        /\ error.cls # MergeConflict("merging failed").cls

\* C6 as amended: a negative exit status of git merge-file is the last thing
\* that happens: the merge has failed with MergeConflict("git merge-file
\* errored"), the class of the abandonment errors with a message of its own,
\* and neither kdiff3 nor the confirmation prompt ran for that file.
C6_ToolErrorIsMergeConflict ==
    \A i \in Indices :
        ToolError(i)
           => /\ i = Len(log)
              /\ pc = "failed"
              /\ error = MergeConflict("git merge-file errored")
              /\ error.msg \notin {"aborted", "merging failed"}
              /\ result = NoResult
              /\ At("kdiff3", log[i].path) = {}
              /\ At("confirm", log[i].path) = {}

\* C6 witness: git merge-file failed for a file inside a tree.
C6_Witness ==
    /\ pc = "failed"
    /\ \E i \in Indices : ToolError(i) /\ Len(log[i].path) >= 1

\* The program is about to do step `at` of the content merge of path.
About(at, path) == pc = at /\ cur.path = path

\* C7: the steps of one content merge.  git merge-file runs first; after
\* exit status 0 its output is the blob returned and neither kdiff3 nor the
\* confirmation run; kdiff3 runs exactly after a positive exit status; the
\* confirmation follows kdiff3; the merged file is read back and returned
\* only after the answer y or Y, and any other answer fails the merge with
\* MergeConflict.
C7_StepsOfMergeBlobs ==
    \A i \in Indices :
        log[i].ev = "merge_blobs"
           => LET path == log[i].path
                  mf == At("merge-file", path)
                  kd == At("kdiff3", path)
                  cf == At("confirm", path)
                  rb == At("readback", path)
                  rt == At("return", path)
              IN  /\ mf \subseteq {i + 1}
                  /\ mf = {} <=> About("merge_file", path)
                  /\ \A m \in mf :
                        /\ log[m].info.returncode = 0
                              => /\ kd \cup cf \cup rb = {}
                                 /\ rt = {m + 2}
                                 /\ log[m + 2].info.oid = log[m].info.stdout
                        /\ log[m].info.returncode > 0
                              <=> (kd = {m + 1} \/ About("kdiff3", path))
                        /\ log[m].info.returncode <= 0 => kd = {}
                  /\ \A k \in kd :
                        /\ cf \subseteq {k + 1}
                        /\ cf = {} <=> About("confirm", path)
                  /\ \A c \in cf :
                        /\ kd # {}
                        /\ log[c].info \in {"y", "Y"}
                              => \/ /\ rb = {c + 1}
                                    /\ rt = {c + 3}
                                    /\ log[c + 3].info.oid = log[c - 1].info
                                 \/ /\ log[c - 1].info = NoBlob
                                    /\ error = FileNotFoundError
                                    /\ pc = "failed"
                                    /\ rb \cup rt = {}
                        /\ log[c].info \notin {"y", "Y"}
                              => /\ rb \cup rt = {}
                                 /\ c = Len(log)
                                 /\ pc = "failed"
                                 /\ error = MergeConflict("merging failed")
                  /\ rb # {} => cf # {}
                  /\ rt # {} => mf # {}

\* C7 witness: a merge that went through git merge-file (conflicts), kdiff3,
\* the confirmation (Y) and the read back, and returned the merged file.
C7_Witness ==
    /\ pc = "done"
    /\ \E i \in Indices :
          /\ log[i].ev = "readback"
          /\ log[i - 1].ev = "confirm"
          /\ log[i - 1].info = "Y"
          /\ log[i - 2].ev = "kdiff3"
          /\ log[i - 3].ev = "merge-file"
          /\ log[i - 3].info.returncode > 0

IsPrefix(p, q) == Len(p) <= Len(q) /\ SubSeq(q, 1, Len(p)) = p

---------------------------------------------------------------------------
(* The merge as a function of its inputs and of the answers the outside    *)
(* world gave for each path, with no order of the names in it: every name  *)
(* of the union is merged on its own, and a tree fails when one of its     *)
(* names fails.  "open" marks a merge whose answers the log does not hold. *)

Asked(ev, path) == At(ev, path) # {}

Answer(ev, path) == log[CHOOSE i \in At(ev, path) : TRUE].info

Ok(value) == [st |-> "ok", value |-> value]

Fails == [st |-> "fail", value |-> None]

Open == [st |-> "open", value |-> None]

OutcomeOfPrompt(path, d) ==
    IF ~Asked("conflict_prompt", path) THEN Open
    ELSE LET r == conflict_prompt(Answer("conflict_prompt", path).ch, d.current, d.other)
         IN  IF r.kind = "return" THEN Ok(r.value) ELSE Fails

OutcomeOfBlobs(path, d) ==
    IF ~Asked("merge-file", path) THEN Open
    ELSE LET mf == Answer("merge-file", path)
             r == AfterMergeFile(mf.returncode, mf.stdout)
         IN  IF r.kind = "return" THEN Ok(Entry(d.mode, r.value))
             ELSE IF r.kind = "raise" THEN Fails
             ELSE IF ~Asked("kdiff3", path) \/ ~Asked("confirm", path) THEN Open
             ELSE LET c == AfterConfirm(Answer("confirm", path), Answer("kdiff3", path))
                  IN  IF c.kind = "return" THEN Ok(Entry(d.mode, c.value)) ELSE Fails

RECURSIVE OutcomeOfEntry(_, _, _, _)

RECURSIVE OutcomeOfTree(_, _, _, _)

OutcomeOfEntry(path, current, base, other) ==
    LET d == merge_entries(current, base, other)
    IN  CASE d.kind = "return" -> Ok(d.value)
          [] d.kind = "raise" -> Fails
          [] d.kind = "prompt" -> OutcomeOfPrompt(path, d)
          [] d.kind = "blobs" -> OutcomeOfBlobs(path, d)
          [] d.kind = "trees" ->
                LET t == OutcomeOfTree(path, d.current, d.base, d.other)
                IN  IF t.st = "ok" THEN Ok(Entry(d.mode, t.value)) ELSE t

OutcomeOfTree(path, current, base, other) ==
    LET outs == {<<n, OutcomeOfEntry(Append(path, n), Get(current, n),
                                     Get(base, n), Get(other, n))>> :
                    n \in UnionOfNames(<<current, base, other>>)}
        kept == {p \in outs : p[2].value # None}
    IN  IF \E p \in outs : p[2].st = "fail" THEN Fails
        ELSE IF \E p \in outs : p[2].st = "open" THEN Open
        ELSE Ok([n \in {p[1] : p \in kept} |->
                    (CHOOSE p \in kept : p[1] = n)[2].value])

\* The three trees of the top-level merge_trees call.
TreesOfCall ==
    IF call.op = "rebase" THEN <<call.parent.tree, Parent(call.commit).tree, call.commit.tree>>
    ELSE <<call.current, call.base, call.other>>

RebaseNoOp == call.op = "rebase" /\ Parent(call.commit) = call.parent

\* C9: rebase returns the commit itself, with no event at all (nothing read,
\* merged or created), when the commit's parent is the new parent; else it
\* calls merge_trees with current = the new parent's tree, base = the old
\* parent's tree, other = the commit's tree and returns a commit with the
\* tree that call returned, the new parent as only parent, and the message
\* and author of the commit.
C9_Rebase ==
    call.op = "rebase"
       => IF RebaseNoOp
          THEN /\ pc \in {"call", "done"}
               /\ log = <<>>
               /\ pc = "done" => result = [kind |-> "commit", value |-> call.commit]
          ELSE /\ \A i \in At("merge_trees", <<>>) :
                     log[i].info = <<call.parent.tree, call.commit.parents[1].tree,
                                     call.commit.tree>>
               /\ pc = "done"
                     => /\ result.kind = "commit"
                        /\ At("merge_trees", <<>>) # {}
                        /\ \E i \in At("create", <<>>) :
                              log[i].info = <<"tree", result.value.tree>>
                        /\ Ok(result.value.tree) =
                              OutcomeOfTree(<<>>, call.parent.tree,
                                            call.commit.parents[1].tree,
                                            call.commit.tree)
                        /\ result.value.parents = <<call.parent>>
                        /\ result.value.message = call.commit.message
                        /\ result.value.author = call.commit.author

\* C9 witness: a rebase onto another parent whose tree is a true merge: it
\* differs from the new parent's tree and from the commit's tree.
C9_Witness ==
    /\ call.op = "rebase"
    /\ ~RebaseNoOp
    /\ pc = "done"
    /\ result.value.tree # call.commit.tree
    /\ result.value.tree # call.parent.tree
    /\ result.value.message # call.parent.message

\* C10: whatever order the names are enumerated in (at every level), a
\* finished merge returned the tree that the inputs and the answers given
\* for each path determine, and a failed merge is one that these determine
\* to fail.
C10_OrderIndependent ==
    LET t == TreesOfCall
        out == IF call.op = "merge_entries"
               THEN OutcomeOfEntry(<<>>, call.current, call.base, call.other)
               ELSE OutcomeOfTree(<<>>, t[1], t[2], t[3])
    IN  /\ (pc = "done" /\ ~RebaseNoOp)
              => /\ out.st = "ok"
                 /\ out.value = IF call.op = "rebase" THEN result.value.tree
                                ELSE result.value
        /\ pc = "failed" => out.st = "fail"

\* C10 witness: a finished merge_trees that merged "b" before "a", with a
\* conflict put to the resolver under each name.
C10_Witness ==
    /\ call.op = "merge_trees"
    /\ pc = "done"
    /\ \E i \in At("conflict_prompt", <<"b">>) :
          \E j \in At("conflict_prompt", <<"a">>) : i < j
    /\ DOMAIN result.value = {"a", "b"}

====
